---- MODULE Spec2Model ----
(***************************************************************************)
(* Model of the Vertex AI media processor Cloud Function                   *)
(* (cloud_functions/vertex_media_processor/main.py): process_media, its    *)
(* four adapters, get_openai_client and publish_result.                    *)
(*                                                                         *)
(* Python values are modelled as follows.                                  *)
(*   str          a sequence of chunks (TLA+ strings); strings that the    *)
(*                code inspects character by character (URLs, MIME types,  *)
(*                provider texts) have one character per chunk, and ""     *)
(*                is << >>.  Concatenation is \o.                          *)
(*   Optional[x]  None is << >>, a present value x is << x >>.             *)
(*   dict         a function from keys to values; a key that was never     *)
(*                set is not in its DOMAIN.                                *)
(***************************************************************************)
EXTENDS Naturals, Sequences, FiniteSets, TLC

----------------------------------------------------------------------------
(* Optional values *)

None == << >>

Some(x) == << x >>

Val(o) == o[1]

\* Python truthiness of an Optional[str]: None and "" are falsy.
Falsy(o) == o = None \/ o = Some(<< >>)

----------------------------------------------------------------------------
(* str operations used by the code *)

UpperAlpha == << "A","B","C","D","E","F","G","H","I","J","K","L","M",
                 "N","O","P","Q","R","S","T","U","V","W","X","Y","Z" >>

LowerAlpha == << "a","b","c","d","e","f","g","h","i","j","k","l","m",
                 "n","o","p","q","r","s","t","u","v","w","x","y","z" >>

LowerChar(c) ==
  IF \E i \in 1..Len(UpperAlpha) : UpperAlpha[i] = c
  THEN LowerAlpha[CHOOSE i \in 1..Len(UpperAlpha) : UpperAlpha[i] = c]
  ELSE c

\* str.lower()
Lower(s) == [i \in 1..Len(s) |-> LowerChar(s[i])]

\* sub in s
Contains(sub, s) ==
  \E i \in 1..(Len(s) + 1) :
     /\ i + Len(sub) - 1 <= Len(s)
     /\ SubSeq(s, i, i + Len(sub) - 1) = sub

\* s.split(c)[-1]: what follows the last c, the whole of s when it has no c
SplitLast(s, c) ==
  IF \E i \in 1..Len(s) : s[i] = c
  THEN LET k == CHOOSE i \in 1..Len(s) :
                   s[i] = c /\ \A j \in (i+1)..Len(s) : s[j] # c
       IN SubSeq(s, k + 1, Len(s))
  ELSE s

\* s.split(c)[0]: what precedes the first c, the whole of s when it has no c
SplitFirst(s, c) ==
  IF \E i \in 1..Len(s) : s[i] = c
  THEN LET k == CHOOSE i \in 1..Len(s) :
                   s[i] = c /\ \A j \in 1..(i-1) : s[j] # c
       IN SubSeq(s, 1, k - 1)
  ELSE s

Whitespace == {" ", "\t", "\n"}

RECURSIVE LStrip(_)
LStrip(s) == IF s # << >> /\ Head(s) \in Whitespace THEN LStrip(Tail(s)) ELSE s

RECURSIVE RStrip(_)
RStrip(s) ==
  IF s # << >> /\ s[Len(s)] \in Whitespace
  THEN RStrip(SubSeq(s, 1, Len(s) - 1))
  ELSE s

\* str.strip()
Strip(s) == RStrip(LStrip(s))

\* the literals the code tests for, one character per chunk
S_audio == << "a","u","d","i","o" >>
S_ogg   == << "o","g","g" >>
S_oga   == << "o","g","a" >>
S_mp3   == << "m","p","3" >>
S_mpeg  == << "m","p","e","g" >>
S_wav   == << "w","a","v" >>
S_webm  == << "w","e","b","m" >>
S_m4a   == << "m","4","a" >>
S_mp4   == << "m","p","4" >>
S_png   == << "p","n","g" >>
S_jpeg  == << "j","p","e","g" >>
S_jpg   == << "j","p","g" >>
S_webp  == << "w","e","b","p" >>

----------------------------------------------------------------------------
(* MIME normalisation, as each adapter computes it *)

\* media_url.split('.')[-1].split('?')[0].lower()
Extension(media_url) == Lower(SplitFirst(SplitLast(media_url, "."), "?"))

\* extension_map.get(extension): None when the extension is no key
ExtensionMapGet(extension) ==
  CASE extension = S_ogg  -> Some("audio/ogg")
    [] extension = S_oga  -> Some("audio/ogg")
    [] extension = S_mp3  -> Some("audio/mpeg")
    [] extension = S_mpeg -> Some("audio/mpeg")
    [] extension = S_wav  -> Some("audio/wav")
    [] extension = S_webm -> Some("audio/webm")
    [] extension = S_m4a  -> Some("audio/mp4")
    [] extension = S_mp4  -> Some("audio/mp4")
    [] OTHER -> None

\* normalized_mime of transcribe_audio_with_vertex
VertexAudioMime(mime_type, media_url) ==
  LET normalized_mime == ExtensionMapGet(Extension(media_url))
      m == Lower(mime_type)
  IN IF normalized_mime # None THEN Val(normalized_mime)
     ELSE IF Contains(S_ogg, m) THEN "audio/ogg"
     ELSE IF Contains(S_mp3, m) \/ Contains(S_mpeg, m) THEN "audio/mpeg"
     ELSE IF Contains(S_wav, m) THEN "audio/wav"
     ELSE IF Contains(S_webm, m) THEN "audio/webm"
     ELSE "audio/mpeg"

\* normalized_mime of transcribe_audio_with_openai:
\* extension_map.get(extension, 'audio/mpeg')
OpenAIAudioMime(mime_type, media_url) ==
  LET normalized_mime == ExtensionMapGet(Extension(media_url))
  IN IF normalized_mime # None THEN Val(normalized_mime) ELSE "audio/mpeg"

\* VertexImageMime with a fault: webp is tested before png
VertexImageMimeWebpFirst(mime_type) ==
  LET m == Lower(mime_type)
  IN IF Contains(S_webp, m) THEN "image/webp"
     ELSE IF Contains(S_png, m) THEN "image/png"
     ELSE IF Contains(S_jpeg, m) \/ Contains(S_jpg, m) THEN "image/jpeg"
     ELSE "image/jpeg"

\* normalized_mime of describe_image_with_vertex
VertexImageMime(mime_type) ==
  LET m == Lower(mime_type)
  IN IF Contains(S_png, m) THEN "image/png"
     ELSE IF Contains(S_jpeg, m) \/ Contains(S_jpg, m) THEN "image/jpeg"
     ELSE IF Contains(S_webp, m) THEN "image/webp"
     ELSE "image/jpeg"

\* normalized_mime of describe_image_with_openai
OpenAIImageMime(mime_type) ==
  LET m == Lower(mime_type)
  IN IF Contains(S_png, m) THEN "image/png"
     ELSE IF Contains(S_jpeg, m) \/ Contains(S_jpg, m) THEN "image/jpeg"
     ELSE IF Contains(S_webp, m) THEN "image/webp"
     ELSE "image/jpeg"

----------------------------------------------------------------------------
(* The inputs of the model *)

\* the threads on which the runtime of one process invokes process_media;
\* invocations on different threads interleave
Threads == { "t1", "t2" }

\* number of invocations of process_media in the life of the process
MaxInvocations == 3

UrlOgg == << "h","/","v",".","o","g","g" >>
UrlBin == << "h","/","c",".","b","i","n" >>
UrlJpg == << "h","/","p",".","J","P","G","?","s","=","1" >>

MimeAudioOgg == << "A","u","d","i","o","/","o","g","g" >>
MimeImagePng == << "i","m","a","g","e","/","p","n","g" >>

\* The Pub/Sub messages a run may be invoked with: data["data"] either does
\* not decode to a JSON object (base64, UTF-8 or JSON error) or decodes to
\* `payload`.  A JSON null is None; a missing key is not in the DOMAIN.
Envelopes ==
  { [decodable |-> FALSE, payload |-> << >>],
    [decodable |-> TRUE,
     payload |-> [media_url |-> Some(UrlOgg), media_type |-> Some(MimeAudioOgg)]],
    [decodable |-> TRUE,
     payload |-> [media_url |-> Some(<< >>), media_type |-> Some(MimeAudioOgg),
                  correlation_id |-> Some(<< "c1" >>)]],
    [decodable |-> TRUE,
     payload |-> [media_url |-> Some(UrlOgg), media_type |-> Some(MimeAudioOgg),
                  correlation_id |-> Some(<< "c1" >>)]],
    [decodable |-> TRUE,
     payload |-> [media_url |-> Some(UrlBin), media_type |-> Some(MimeAudioOgg),
                  correlation_id |-> Some(<< "c2" >>)]],
    [decodable |-> TRUE,
     payload |-> [media_url |-> Some(UrlJpg), media_type |-> Some(MimeImagePng),
                  correlation_id |-> Some(<< "c1" >>)]],
    [decodable |-> TRUE,
     payload |-> [media_url |-> Some(UrlJpg),
                  correlation_id |-> Some(<< "c2" >>)]],
    [decodable |-> TRUE,
     payload |-> [media_url |-> Some(UrlOgg), media_type |-> None,
                  correlation_id |-> Some(<< "c1" >>)]] }

\* media_response.content: what the remote host serves at media_url when
\* requests.get(media_url, timeout=30) succeeds
Content(media_url) == << "content of " >> \o media_url

\* str(e) of the HTTPError that media_response.raise_for_status() raises for
\* a 404: requests words it "<status> Client Error: <reason> for url: <url>"
HTTPErrorStr(status, media_url) ==
  << status, " Client Error: ", "Not Found", " for url: " >> \o media_url

\* str(e) of the requests timeout raised after the 30 s of line 129
TimeoutStr == << "Read timed out. (read timeout=30)" >>

\* the exceptions lines 129-130 can raise
FetchErrors(media_url) ==
  { [kind |-> "HTTPError", status |-> "404", str |-> HTTPErrorStr("404", media_url)],
    [kind |-> "Timeout", status |-> "", str |-> TimeoutStr] }

\* what the Vertex AI call can yield: an exception, or a response whose
\* .text is None or a str
VertexRaises == { << "quota exceeded" >> }

VertexTexts == { None, Some(<< >>), Some(<< " " >>), Some(<< " ","o","k","\n" >>) }

\* what the OpenAI calls can yield: an exception, or a response whose text
\* (Whisper) or message content (Vision) is None or a str
OpenAIRaises == { << "rate limit" >> }

WhisperTexts == { << >>, << "H","i"," " >> }

VisionContents == { None, Some(<< >>), Some(<< "H","i"," " >>) }

\* what the Secret Manager call can raise
SecretRaises == { << "secret denied" >> }

----------------------------------------------------------------------------
(* State *)

\* run[t]: the invocation of process_media in progress (or last finished)
\*         on thread t: its locals, its position pc, and a record of the
\*         calls it made to its collaborators.
\* openai_client: the module global _openai_client: None, or the n-th
\*         client built in this process.
\* constructions: how many times OpenAI(api_key=...) was built so far.
\* invocations: how many times process_media was invoked so far.
VARIABLES run, openai_client, constructions, invocations

vars == << run, openai_client, constructions, invocations >>

shared == << openai_client, constructions, invocations >>

InitRun(data) ==
  [ pc              |-> "start",
    data            |-> data,
    media_url       |-> None,
    media_type      |-> None,
    correlation_id  |-> None,
    processing_type |-> None,
    media_bytes     |-> None,
    result_text     |-> None,
    error           |-> None,
    service_used    |-> None,
    vertex_error    |-> None,
    openai_error    |-> None,
    client          |-> None,
    \* the orchestrator's state, and how process_media ended
    state           |-> "INIT",
    ended           |-> "running",
    \* calls made: requests.get (and the exception it raised), the Vertex
    \* adapter (its arguments, what the provider answered and the text the
    \* adapter returned), the OpenAI adapter (likewise), Secret Manager,
    \* OpenAI(...) and publish_result (the dicts handed to it)
    fetch_calls     |-> 0,
    fetch_exc       |-> None,
    vertex_calls    |-> << >>,
    vertex_response |-> None,
    vertex_ret      |-> None,
    openai_calls    |-> << >>,
    openai_response |-> None,
    openai_ret      |-> None,
    secret_calls    |-> 0,
    built           |-> 0,
    published       |-> << >>,
    acked           |-> FALSE ]

\* a thread on which process_media has not been invoked yet
IdleRun == [InitRun([decodable |-> FALSE, payload |-> << >>]) EXCEPT !.pc = "idle"]

Init ==
  /\ run = [t \in Threads |-> IdleRun]
  /\ openai_client = None
  /\ constructions = 0
  /\ invocations = 0

\* the runtime delivers one Pub/Sub message: process_media(data, context) is
\* called on a thread that runs no invocation
Invoke(r) ==
  /\ run[r].pc \in { "idle", "done" }
  /\ invocations < MaxInvocations
  /\ \E data \in Envelopes : run' = [run EXCEPT ![r] = InitRun(data)]
  /\ invocations' = invocations + 1
  /\ UNCHANGED << openai_client, constructions >>

\* payload.get(key, default)
DictGet(payload, key, default) ==
  IF key \in DOMAIN payload THEN payload[key] ELSE default

----------------------------------------------------------------------------
(* process_media, lines 105-122: decode, validate, classify *)

\* Invalid with a fault: the test of correlation_id is left out
InvalidUrlOnly(media_url, correlation_id) == Falsy(media_url)

\* line 116: if not media_url or not correlation_id: raise ValueError
Invalid(media_url, correlation_id) == Falsy(media_url) \/ Falsy(correlation_id)

\* ProcessingType with a fault: the test is case-sensitive
ProcessingTypeCaseSensitive(media_type) ==
  IF Contains(S_audio, media_type) THEN "audio" ELSE "image"

\* line 120: 'audio' if 'audio' in media_type.lower() else 'image'
ProcessingType(media_type) ==
  IF Contains(S_audio, Lower(media_type)) THEN "audio" ELSE "image"

\* FatalError with a fault: the outer handler publishes an error dict
FatalErrorPublishes(s) ==
  [s EXCEPT !.published = Append(@, [ correlation_id |-> None,
                                      result         |-> << >>,
                                      media_type     |-> "image",
                                      service_used   |-> None,
                                      error          |-> Some(<< "Fatal error" >>) ]),
            !.pc = "done",
            !.ended = "fatal"]

\* lines 207-208: the outer handler logs the exception and process_media
\* returns; nothing is published there
FatalError(s) == [s EXCEPT !.pc = "done", !.ended = "fatal"]

Decode(r) ==
  /\ run[r].pc = "start"
  /\ LET s == run[r]
         payload == s.data.payload
         media_url == DictGet(payload, "media_url", None)
         media_type == DictGet(payload, "media_type", Some(<< >>))
         correlation_id == DictGet(payload, "correlation_id", None)
         read == [s EXCEPT !.media_url = media_url,
                           !.media_type = media_type,
                           !.correlation_id = correlation_id]
     IN run' = [run EXCEPT ![r] =
          IF ~s.data.decodable THEN FatalError(s)
          ELSE IF Invalid(media_url, correlation_id) THEN FatalError(read)
          \* media_type is None (a JSON null): None.lower() raises
          ELSE IF media_type = None THEN FatalError(read)
          ELSE [read EXCEPT !.processing_type = Some(ProcessingType(Val(media_type))),
                            !.state = "FETCHING",
                            !.pc = "fetch"]]
  /\ UNCHANGED shared

----------------------------------------------------------------------------
(* process_media, lines 127-146: download *)

\* DownloadErrorMsg with a fault: the bare str(e) is published
DownloadErrorMsgBare(e) == e

\* line 136
DownloadErrorMsg(e) == << "Failed to download media: " >> \o e

\* lines 140-145: the dict published after a failed download
DownloadErrorPayload(s, error_msg) ==
  [ correlation_id |-> s.correlation_id,
    result         |-> << >>,
    media_type     |-> Val(s.processing_type),
    error          |-> Some(error_msg) ]

\* FetchOk with a fault: the OpenAI client is built as soon as the media is
\* downloaded
FetchOkBuildsClient(r) ==
  /\ run[r].pc = "fetch"
  /\ run' = [run EXCEPT ![r] =
       [@ EXCEPT !.fetch_calls = @ + 1,
                 !.media_bytes = Some(Content(Val(run[r].media_url))),
                 !.secret_calls = @ + 1,
                 !.built = @ + 1,
                 !.state = "INFER_PRIMARY",
                 !.pc = "primary"]]
  /\ openai_client' = Some(constructions + 1)
  /\ constructions' = constructions + 1
  /\ UNCHANGED invocations

FetchOk(r) ==
  /\ run[r].pc = "fetch"
  /\ run' = [run EXCEPT ![r] =
       [@ EXCEPT !.fetch_calls = @ + 1,
                 !.media_bytes = Some(Content(Val(run[r].media_url))),
                 !.state = "INFER_PRIMARY",
                 !.pc = "primary"]]
  /\ UNCHANGED shared

\* FetchFail with a fault: no return after the error is published; the run goes
\* on with empty bytes
FetchFailContinues(r) ==
  /\ run[r].pc = "fetch"
  /\ \E e \in FetchErrors(Val(run[r].media_url)) :
       run' = [run EXCEPT ![r] =
          [@ EXCEPT !.fetch_calls = @ + 1,
                    !.fetch_exc = Some(e),
                    !.media_bytes = Some(<< >>),
                    !.state = "FETCH_FAILED",
                    !.published = Append(@, DownloadErrorPayload(run[r], DownloadErrorMsg(e.str))),
                    !.pc = "primary"]]
  /\ UNCHANGED shared

\* after the error dict is handed to publish_result the function returns
\* (line 146)
FetchFail(r) ==
  /\ run[r].pc = "fetch"
  /\ \E e \in FetchErrors(Val(run[r].media_url)) :
       run' = [run EXCEPT ![r] =
          [@ EXCEPT !.fetch_calls = @ + 1,
                    !.fetch_exc = Some(e),
                    !.state = "FETCH_FAILED",
                    !.published = Append(@, DownloadErrorPayload(run[r], DownloadErrorMsg(e.str))),
                    !.pc = "publish"]]
  /\ UNCHANGED shared

----------------------------------------------------------------------------
(* process_media, lines 148-205: Vertex AI, then OpenAI, then publish *)

\* ResultPayload with a fault: correlation_id is kept in a global that the
\* invocation on thread t1 has written last
ResultPayloadSharedId(s) ==
  [ correlation_id |-> run["t1"].correlation_id,
    result         |-> IF Falsy(s.result_text) THEN << >> ELSE Val(s.result_text),
    media_type     |-> Val(s.processing_type),
    service_used   |-> s.service_used,
    error          |-> s.error ]

\* ResultPayload with a fault: the text is left out of the dict
ResultPayloadDropsText(s) ==
  [ correlation_id |-> s.correlation_id,
    result         |-> << >>,
    media_type     |-> Val(s.processing_type),
    service_used   |-> s.service_used,
    error          |-> s.error ]

\* lines 189-195
ResultPayload(s) ==
  [ correlation_id |-> s.correlation_id,
    result         |-> IF Falsy(s.result_text) THEN << >> ELSE Val(s.result_text),
    media_type     |-> Val(s.processing_type),
    service_used   |-> s.service_used,
    error          |-> s.error ]

\* ToPublish with a fault: publish_result is never called
ToPublishNothing(s) == [s EXCEPT !.pc = "publish"]

\* lines 188-204: build the dict and hand it to publish_result
ToPublish(s) ==
  [s EXCEPT !.published = Append(@, ResultPayload(s)), !.pc = "publish"]

\* TotalFailureError with a fault: the two reasons change places
TotalFailureErrorSwapped(vertex_error, openai_error) ==
  << "Vertex AI: " >> \o openai_error \o << " | OpenAI: " >> \o vertex_error

\* line 185
TotalFailureError(vertex_error, openai_error) ==
  << "Vertex AI: " >> \o vertex_error \o << " | OpenAI: " >> \o openai_error

\* lines 183-186; the adapter's frame, and its `client`, are gone
SecondaryFailed(s, openai_error) ==
  ToPublish([s EXCEPT !.openai_error = Some(openai_error),
                      !.client = None,
                      !.error = Some(TotalFailureError(Val(s.vertex_error), openai_error)),
                      !.state = "SECONDARY_FAILED"])

VertexResponses ==
  { [raised |-> TRUE, reason |-> e] : e \in VertexRaises }
    \cup { [raised |-> FALSE, text |-> t] : t \in VertexTexts }

\* lines 273-276 and 327-330: what the adapter makes of response.text
VertexEmptyError(processing_type) ==
  IF processing_type = "audio"
  THEN << "Empty transcription returned from Vertex AI" >>
  ELSE << "Empty description returned from Vertex AI" >>

\* VertexAdapter with a fault: the text is stripped before it is tested
VertexAdapterStripsFirst(processing_type, response) ==
  IF response.raised THEN [raised |-> TRUE, reason |-> response.reason]
  ELSE IF Falsy(response.text) \/ Strip(Val(response.text)) = << >>
       THEN [raised |-> TRUE, reason |-> VertexEmptyError(processing_type)]
       ELSE [raised |-> FALSE, text |-> Strip(Val(response.text))]

\* transcribe_audio_with_vertex / describe_image_with_vertex on a provider
\* response: the text returned, or the exception raised
VertexAdapter(processing_type, response) ==
  IF response.raised THEN [raised |-> TRUE, reason |-> response.reason]
  ELSE IF Falsy(response.text)
       THEN [raised |-> TRUE, reason |-> VertexEmptyError(processing_type)]
       ELSE [raised |-> FALSE, text |-> Strip(Val(response.text))]

\* the (bytes, mime) the Vertex adapter sends: Part.from_data(data, mime_type)
VertexCall(s) ==
  [ capability |-> IF Val(s.processing_type) = "audio" THEN "transcribe" ELSE "describe",
    bytes      |-> Val(s.media_bytes),
    mime       |-> IF Val(s.processing_type) = "audio"
                   THEN VertexAudioMime(Val(s.media_type), Val(s.media_url))
                   ELSE VertexImageMime(Val(s.media_type)) ]

\* lines 157-158 and 162-163: the adapter returned `text`
PrimaryOk(s, text) ==
  ToPublish([s EXCEPT !.result_text = Some(text),
                      !.vertex_ret = Some(text),
                      !.service_used = Some("vertex_ai"),
                      !.state = "PRIMARY_OK"])

\* PrimaryFailed with a fault: the Vertex failure is written to `error` at once
PrimaryFailedSetsError(s, reason) ==
  [s EXCEPT !.vertex_error = Some(reason),
            !.error = Some(<< "Vertex AI: " >> \o reason),
            !.state = "INFER_SECONDARY",
            !.pc = "secondary"]

\* PrimaryFailed with a fault: the run gives up without trying the fallback
PrimaryFailedGivesUp(s, reason) ==
  ToPublish([s EXCEPT !.vertex_error = Some(reason),
                      !.error = Some(<< "Vertex AI: " >> \o reason),
                      !.state = "SECONDARY_FAILED"])

\* PrimaryFailed with a fault: the outcome is handed to publish_result before
\* the fallback is tried
PrimaryFailedPublishesEarly(s, reason) ==
  [s EXCEPT !.vertex_error = Some(reason),
            !.published = Append(@, ResultPayload(s)),
            !.state = "INFER_SECONDARY",
            !.pc = "secondary"]

\* lines 166-168: the adapter raised; the exception stays bound to
\* vertex_error while the fallback runs
PrimaryFailed(s, reason) ==
  [s EXCEPT !.vertex_error = Some(reason),
            !.state = "INFER_SECONDARY",
            !.pc = "secondary"]

\* lines 153-168
InferPrimary(r) ==
  /\ run[r].pc = "primary"
  /\ \E response \in VertexResponses :
       LET s == [run[r] EXCEPT !.vertex_calls = Append(@, VertexCall(run[r])),
                               !.vertex_response = Some(response)]
           out == VertexAdapter(Val(s.processing_type), response)
       IN run' = [run EXCEPT ![r] =
            IF out.raised THEN PrimaryFailed(s, out.reason)
            ELSE PrimaryOk(s, out.text)]
  /\ UNCHANGED shared

\* the (bytes, mime) the OpenAI adapter computes (lines 355-376, 407-420)
OpenAICall(s) ==
  [ capability |-> IF Val(s.processing_type) = "audio" THEN "transcribe" ELSE "describe",
    bytes      |-> Val(s.media_bytes),
    mime       |-> IF Val(s.processing_type) = "audio"
                   THEN OpenAIAudioMime(Val(s.media_type), Val(s.media_url))
                   ELSE OpenAIImageMime(Val(s.media_type)) ]

\* lines 171-179 up to get_openai_client, lines 54-57: the adapter is
\* entered and the global is read
SecondaryBegin(r) ==
  /\ run[r].pc = "secondary"
  /\ run' = [run EXCEPT ![r] =
       [@ EXCEPT !.openai_calls = Append(@, OpenAICall(run[r])),
                 !.client = openai_client,
                 !.pc = IF openai_client # None THEN "openai_api" ELSE "secret"]]
  /\ UNCHANGED shared

\* SecretAccess with a fault: a failed construction is remembered in the
\* global, as a handle that is no client
SecretAccessCachesFailure(r) ==
  /\ run[r].pc = "secret"
  /\ \/ /\ run' = [run EXCEPT ![r] =
             [@ EXCEPT !.secret_calls = @ + 1,
                       !.built = @ + 1,
                       !.client = Some(constructions + 1),
                       !.pc = "openai_api"]]
        /\ openai_client' = Some(constructions + 1)
        /\ constructions' = constructions + 1
        /\ UNCHANGED invocations
     \/ /\ \E e \in SecretRaises :
             run' = [run EXCEPT ![r] =
               SecondaryFailed([run[r] EXCEPT !.secret_calls = @ + 1], e)]
        /\ openai_client' = Some(0)
        /\ UNCHANGED << constructions, invocations >>

\* SecretAccess with a fault: the exception of get_openai_client is not caught
\* by the handler of line 183 and ends the run in the outer handler
SecretAccessFatal(r) ==
  /\ run[r].pc = "secret"
  /\ \/ /\ run' = [run EXCEPT ![r] =
             [@ EXCEPT !.secret_calls = @ + 1,
                       !.built = @ + 1,
                       !.client = Some(constructions + 1),
                       !.pc = "openai_api"]]
        /\ openai_client' = Some(constructions + 1)
        /\ constructions' = constructions + 1
        /\ UNCHANGED invocations
     \/ /\ \E e \in SecretRaises :
             run' = [run EXCEPT ![r] =
               FatalError([run[r] EXCEPT !.secret_calls = @ + 1,
                                         !.openai_error = Some(e)])]
        /\ UNCHANGED shared

\* get_openai_client, lines 59-76: fetch the key, build the client, store it
\* in the global; an exception is re-raised to the adapter and from there to
\* process_media
SecretAccess(r) ==
  /\ run[r].pc = "secret"
  /\ \/ /\ run' = [run EXCEPT ![r] =
             [@ EXCEPT !.secret_calls = @ + 1,
                       !.built = @ + 1,
                       !.client = Some(constructions + 1),
                       !.pc = "openai_api"]]
        /\ openai_client' = Some(constructions + 1)
        /\ constructions' = constructions + 1
        /\ UNCHANGED invocations
     \/ /\ \E e \in SecretRaises :
             run' = [run EXCEPT ![r] =
               SecondaryFailed([run[r] EXCEPT !.secret_calls = @ + 1], e)]
        /\ UNCHANGED shared

OpenAIResponses(processing_type) ==
  { [raised |-> TRUE, reason |-> e] : e \in OpenAIRaises }
    \cup (IF processing_type = "audio"
          THEN { [raised |-> FALSE, text |-> Some(t)] : t \in WhisperTexts }
          ELSE { [raised |-> FALSE, text |-> t] : t \in VisionContents })

\* lines 387-389 and 446-448: response.strip() / message.content.strip();
\* a None content has no strip
OpenAIAdapter(response) ==
  IF response.raised THEN [raised |-> TRUE, reason |-> response.reason]
  ELSE IF response.text = None
       THEN [raised |-> TRUE,
             reason |-> << "'NoneType' object has no attribute 'strip'" >>]
       ELSE [raised |-> FALSE, text |-> Strip(Val(response.text))]

\* the label of lines 175 and 180
OpenAIService(processing_type) ==
  IF processing_type = "audio" THEN "openai_whisper" ELSE "openai_vision"

\* SecondaryOk with a fault: the fallback keeps the label of the primary branch
SecondaryOkVertexLabel(s, text) ==
  ToPublish([s EXCEPT !.result_text = Some(text),
                      !.openai_ret = Some(text),
                      !.client = None,
                      !.service_used = Some("vertex_ai"),
                      !.state = "SECONDARY_OK"])

\* lines 174-175 and 179-180: the adapter returned `text`
SecondaryOk(s, text) ==
  ToPublish([s EXCEPT !.result_text = Some(text),
                      !.openai_ret = Some(text),
                      !.client = None,
                      !.service_used = Some(OpenAIService(Val(s.processing_type))),
                      !.state = "SECONDARY_OK"])

\* lines 380-389 / 424-448, then lines 175-186
OpenAIApi(r) ==
  /\ run[r].pc = "openai_api"
  /\ \E response \in OpenAIResponses(Val(run[r].processing_type)) :
       LET s == [run[r] EXCEPT !.openai_response = Some(response)]
           out == OpenAIAdapter(response)
       IN run' = [run EXCEPT ![r] =
            IF out.raised THEN SecondaryFailed(s, out.reason)
            ELSE SecondaryOk(s, out.text)]
  /\ UNCHANGED shared

\* Publish with a fault: a publish the transport rejects is tried again
PublishRetries(r) ==
  /\ run[r].pc = "publish"
  /\ \E ok \in BOOLEAN :
       run' = [run EXCEPT ![r] =
          IF ok
          THEN [@ EXCEPT !.acked = TRUE, !.ended = "returned", !.pc = "done"]
          ELSE [@ EXCEPT !.published = Append(@, @[Len(@)])]]
  /\ UNCHANGED shared

\* publish_result, lines 83-93: the transport acknowledges, or the publish
\* raises and the handler of lines 207-208 logs it
Publish(r) ==
  /\ run[r].pc = "publish"
  /\ \E ok \in BOOLEAN :
       run' = [run EXCEPT ![r] =
          [@ EXCEPT !.acked = ok,
                    !.ended = IF ok THEN "returned" ELSE "fatal",
                    !.pc = "done"]]
  /\ UNCHANGED shared

Next ==
  \E r \in Threads :
     \/ Invoke(r)
     \/ Decode(r)
     \/ FetchOk(r)
     \/ FetchFail(r)
     \/ InferPrimary(r)
     \/ SecondaryBegin(r)
     \/ SecretAccess(r)
     \/ OpenAIApi(r)
     \/ Publish(r)

Spec == Init /\ [][Next]_vars

\* one step of the invocation running on thread r
Step(r) ==
  \/ Decode(r)
  \/ FetchOk(r)
  \/ FetchFail(r)
  \/ InferPrimary(r)
  \/ SecondaryBegin(r)
  \/ SecretAccess(r)
  \/ OpenAIApi(r)
  \/ Publish(r)

\* every external call returns (requests.get has timeout=30, the provider
\* calls and future.result() are taken to return) and every thread is
\* scheduled: an invocation that can take a step takes one.  The arrival of
\* messages is not fair: no message need ever arrive.
FairSpec == Spec /\ \A r \in Threads : WF_vars(Step(r))

----------------------------------------------------------------------------
(* One run of process_media over a range of URLs and media types *)

\* media_url values: each extension of extension_map, in lower and upper
\* case, with and without a query string; an extension that is no key; no
\* extension; and query strings that hold a '.'
\* (h/v.ogg, h/v.OGA?x=1, h/v.mp3, h/v.mpeg, h/v.wav, h/v.webm, h/v.m4a, h/v.mp4, h/c.xyz, h/c, h/v.ogg?s=a.b, h/c.xyz?f=a.wav, h/v.mp3?f=a.ogg)
MimeUrls ==
  { << "h","/","v",".","o","g","g" >>,
    << "h","/","v",".","O","G","A","?","x","=","1" >>,
    << "h","/","v",".","m","p","3" >>,
    << "h","/","v",".","m","p","e","g" >>,
    << "h","/","v",".","w","a","v" >>,
    << "h","/","v",".","w","e","b","m" >>,
    << "h","/","v",".","m","4","a" >>,
    << "h","/","v",".","m","p","4" >>,
    << "h","/","c",".","x","y","z" >>,
    << "h","/","c" >>,
    << "h","/","v",".","o","g","g","?","s","=","a",".","b" >>,
    << "h","/","c",".","x","y","z","?","f","=","a",".","w","a","v" >>,
    << "h","/","v",".","m","p","3","?","f","=","a",".","o","g","g" >> }

\* media_type values of the audio category
\* (audio/ogg, AUDIO/OGG, audio/mp3, audio/mpeg, audio/wav, audio/webm, audio/mp4, audio/weird-codec, audio/wav+ogg, audio/webm+mpeg, audio/webm+wav, audio)
MimeAudioTypes ==
  { << "a","u","d","i","o","/","o","g","g" >>,
    << "A","U","D","I","O","/","O","G","G" >>,
    << "a","u","d","i","o","/","m","p","3" >>,
    << "a","u","d","i","o","/","m","p","e","g" >>,
    << "a","u","d","i","o","/","w","a","v" >>,
    << "a","u","d","i","o","/","w","e","b","m" >>,
    << "a","u","d","i","o","/","m","p","4" >>,
    << "a","u","d","i","o","/","w","e","i","r","d","-","c","o","d","e","c" >>,
    << "a","u","d","i","o","/","w","a","v","+","o","g","g" >>,
    << "a","u","d","i","o","/","w","e","b","m","+","m","p","e","g" >>,
    << "a","u","d","i","o","/","w","e","b","m","+","w","a","v" >>,
    << "a","u","d","i","o" >> }

\* media_type values of the image category
\* (image/png, IMAGE/PNG, image/jpeg, image/jpg, image/webp, image/gif, '', image/webp+png, image/webp+jpg, image/jpeg+png)
MimeImageTypes ==
  { << "i","m","a","g","e","/","p","n","g" >>,
    << "I","M","A","G","E","/","P","N","G" >>,
    << "i","m","a","g","e","/","j","p","e","g" >>,
    << "i","m","a","g","e","/","j","p","g" >>,
    << "i","m","a","g","e","/","w","e","b","p" >>,
    << "i","m","a","g","e","/","g","i","f" >>,
    << >>,
    << "i","m","a","g","e","/","w","e","b","p","+","p","n","g" >>,
    << "i","m","a","g","e","/","w","e","b","p","+","j","p","g" >>,
    << "i","m","a","g","e","/","j","p","e","g","+","p","n","g" >> }

\* payloads with each media_type, and payloads without the media_type key
MimeEnvelopes ==
  { [decodable |-> TRUE,
     payload |-> [media_url |-> Some(u), media_type |-> Some(m),
                  correlation_id |-> Some(<< "c1" >>)]] :
       u \in MimeUrls, m \in MimeAudioTypes \cup MimeImageTypes }
  \cup
  { [decodable |-> TRUE,
     payload |-> [media_url |-> Some(u), correlation_id |-> Some(<< "c1" >>)]] :
       u \in MimeUrls }

\* process_media has been invoked once, on thread t1
InitMime ==
  /\ \E data \in MimeEnvelopes :
        run = [t \in Threads |-> IF t = "t1" THEN InitRun(data) ELSE IdleRun]
  /\ openai_client = None
  /\ constructions = 0
  /\ invocations = 1

\* the steps of the invocation
NextMime ==
  \E r \in Threads :
     \/ Decode(r)
     \/ FetchOk(r)
     \/ FetchFail(r)
     \/ InferPrimary(r)
     \/ SecondaryBegin(r)
     \/ SecretAccess(r)
     \/ OpenAIApi(r)
     \/ Publish(r)

SpecMime == InitMime /\ [][NextMime]_vars

----------------------------------------------------------------------------
(* Properties *)

\* the terminal states of the orchestrator
Terminal == { "FETCH_FAILED", "PRIMARY_OK", "SECONDARY_OK", "SECONDARY_FAILED" }

\* outcome.get(key): None for a key the dict does not hold
Field(outcome, key) == DictGet(outcome, key, None)

\* sub occurs in s at position i
OccursAt(sub, s, i) ==
  /\ i + Len(sub) - 1 <= Len(s)
  /\ SubSeq(s, i, i + Len(sub) - 1) = sub

\* a occurs in s, and b occurs in s after that occurrence of a
InOrder(a, b, s) ==
  \E i \in 1..Len(s), j \in 1..Len(s) :
     OccursAt(a, s, i) /\ OccursAt(b, s, j) /\ i + Len(a) <= j

\* the payload has no such key, or holds null or "" for it
MissingOrEmpty(payload, key) ==
  \/ key \notin DOMAIN payload
  \/ payload[key] = None
  \/ payload[key] = Some(<< >>)

\* s was invoked with an envelope that decodes to a payload whose media_url
\* or correlation_id is missing or empty
FailsValidation(s) ==
  /\ s.pc # "idle"
  /\ s.data.decodable
  /\ \/ MissingOrEmpty(s.data.payload, "media_url")
     \/ MissingOrEmpty(s.data.payload, "correlation_id")

\* C1: when the fetch succeeded and the Vertex adapter returned non-empty
\* text, exactly one outcome is published and it has service_used
\* "vertex_ai", error None and that text as result.
C1_PrimarySuccessOutcome ==
  \A r \in Threads :
     LET s == run[r]
     IN (s.media_bytes # None /\ s.vertex_ret # None /\ Val(s.vertex_ret) # << >>)
        => /\ Len(s.published) = 1
           /\ Field(s.published[1], "service_used") = Some("vertex_ai")
           /\ Field(s.published[1], "error") = None
           /\ s.published[1].result = Val(s.vertex_ret)

C1_Witness ==
  \E r \in Threads :
     /\ run[r].pc = "done" /\ run[r].acked
     /\ run[r].vertex_ret # None /\ Val(run[r].vertex_ret) # << >>

\* C2: when the fetch succeeded, the Vertex adapter failed (it raised, or the
\* provider returned empty text) and the OpenAI adapter returned text, the
\* published outcome has the OpenAI label of the category as service_used,
\* error None (the Vertex reason is not reported) and the OpenAI text as
\* result.
C2_SecondarySuccessOutcome ==
  \A r \in Threads :
     LET s == run[r]
     IN (s.vertex_error # None /\ s.openai_ret # None)
        => /\ Len(s.published) = 1
           /\ Field(s.published[1], "service_used") =
                Some(IF Val(s.processing_type) = "audio"
                     THEN "openai_whisper" ELSE "openai_vision")
           /\ Field(s.published[1], "error") = None
           /\ s.published[1].result = Val(s.openai_ret)

C2_Witness ==
  \E r \in Threads :
     /\ run[r].pc = "done" /\ run[r].acked
     /\ run[r].vertex_error = Some(<< "Empty transcription returned from Vertex AI" >>)
     /\ run[r].openai_ret # None /\ Val(run[r].openai_ret) # << >>

\* C3: when the fetch succeeded and both adapters failed, the published
\* outcome has result "", service_used None and an error string in which the
\* Vertex reason occurs and the OpenAI reason occurs after it.
C3_BothFailedOutcome ==
  \A r \in Threads :
     LET s == run[r]
     IN (s.vertex_error # None /\ s.openai_error # None)
        => /\ Len(s.published) = 1
           /\ s.published[1].result = << >>
           /\ Field(s.published[1], "service_used") = None
           /\ Field(s.published[1], "error") # None
           /\ InOrder(Val(s.vertex_error), Val(s.openai_error),
                      Val(Field(s.published[1], "error")))

C3_Witness ==
  \E r \in Threads :
     /\ run[r].pc = "done"
     /\ run[r].vertex_error = Some(<< "quota exceeded" >>)
     /\ run[r].openai_error = Some(<< "rate limit" >>)

\* C4: every outcome handed to publish_result has service_used None (or no
\* service_used key) exactly when its error is not None and its result is
\* "", and has error None whenever its service_used is not None.
C4_OutcomeInvariant ==
  \A r \in Threads :
     \A i \in 1..Len(run[r].published) :
        LET o == run[r].published[i]
        IN /\ (Field(o, "service_used") = None)
                <=> (Field(o, "error") # None /\ o.result = << >>)
           /\ Field(o, "service_used") # None => Field(o, "error") = None

C4_Witness ==
  \E r, q \in Threads :
     /\ run[r].state = "FETCH_FAILED" /\ Len(run[r].published) = 1
     /\ run[q].state = "SECONDARY_OK" /\ Len(run[q].published) = 1

\* C5: a run that has reached a terminal state of the orchestrator has
\* called publish_result exactly once, and no run calls it more than once.
C5_PublishedExactlyOnce ==
  \A r \in Threads :
     /\ Len(run[r].published) <= 1
     /\ run[r].state \in Terminal => Len(run[r].published) = 1

C5_Witness ==
  \E r, q \in Threads :
     /\ run[r].pc = "done" /\ run[r].state = "SECONDARY_FAILED"
     /\ run[q].pc = "done" /\ run[q].state = "PRIMARY_OK"

\* C6 as stated: after a failed fetch the outcome has result "", service_used
\* None and error "Failed to download media: <cause>", which for an HTTP 404
\* is "Failed to download media: 404".
C6_Original ==
  \A r \in Threads :
     LET s == run[r]
     IN s.fetch_exc # None
        => /\ Len(s.published) = 1
           /\ s.published[1].result = << >>
           /\ Field(s.published[1], "service_used") = None
           /\ s.published[1].error = Some(<< "Failed to download media: " >> \o Val(s.fetch_exc).str)
           /\ (Val(s.fetch_exc).kind = "HTTPError" /\ Val(s.fetch_exc).status = "404")
                => s.published[1].error = Some(<< "Failed to download media: ", "404" >>)

\* C6 amended: after a failed fetch the outcome has result "", no
\* service_used and error "Failed to download media: " followed by str(e) of
\* the exception; for an HTTP 404 that is
\* "Failed to download media: 404 Client Error: <reason> for url: <media_url>".
C6_FetchFailureOutcome ==
  \A r \in Threads :
     LET s == run[r]
     IN s.fetch_exc # None
        => /\ Len(s.published) = 1
           /\ s.published[1].result = << >>
           /\ Field(s.published[1], "service_used") = None
           /\ s.published[1].error = Some(<< "Failed to download media: " >> \o Val(s.fetch_exc).str)
           /\ (Val(s.fetch_exc).kind = "HTTPError" /\ Val(s.fetch_exc).status = "404")
                => s.published[1].error =
                     Some(<< "Failed to download media: ", "404", " Client Error: ",
                             "Not Found", " for url: " >> \o Val(s.media_url))

C6_Witness ==
  \E r \in Threads :
     /\ run[r].pc = "done"
     /\ run[r].fetch_exc # None
     /\ Val(run[r].fetch_exc).status = "404"

\* C7: in a run whose fetch failed, neither the Vertex adapter nor the OpenAI
\* adapter is ever invoked.
C7_NoInferenceAfterFetchFailure ==
  \A r \in Threads :
     run[r].fetch_exc # None
        => run[r].vertex_calls = << >> /\ run[r].openai_calls = << >>

C7_Witness ==
  \E r \in Threads :
     /\ run[r].pc = "done"
     /\ run[r].fetch_exc # None
     /\ Val(run[r].fetch_exc).kind = "Timeout"

\* C8 as stated: a run whose envelope decodes with media_url or
\* correlation_id missing or empty ends having published an outcome whose
\* error is set and whose result is "".
C8_ValidationFailurePublished ==
  \A r \in Threads :
     (FailsValidation(run[r]) /\ run[r].pc = "done")
        => /\ Len(run[r].published) = 1
           /\ Field(run[r].published[1], "error") # None
           /\ run[r].published[1].result = << >>

\* C9: a run whose envelope decodes with media_url or correlation_id missing
\* or empty never calls requests.get, the Vertex adapter or the OpenAI
\* adapter.
C9_ValidationFailureCallsNothing ==
  \A r \in Threads :
     FailsValidation(run[r])
        => /\ run[r].fetch_calls = 0
           /\ run[r].vertex_calls = << >>
           /\ run[r].openai_calls = << >>

C9_Witness ==
  \E r, q \in Threads :
     /\ run[r].pc = "done" /\ FailsValidation(run[r])
     /\ "correlation_id" \notin DOMAIN run[r].data.payload
     /\ run[q].pc = "done" /\ FailsValidation(run[q])
     /\ DictGet(run[q].data.payload, "media_url", None) = Some(<< >>)

\* C10 as stated: in a run where both adapters are invoked, the OpenAI
\* adapter gets the bytes the Vertex adapter got and computes the normalized
\* MIME the Vertex adapter computed.
C10_SameBytesAndMime ==
  \A r \in Threads :
     \A i \in 1..Len(run[r].vertex_calls), j \in 1..Len(run[r].openai_calls) :
        /\ run[r].vertex_calls[i].bytes = run[r].openai_calls[j].bytes
        /\ run[r].vertex_calls[i].mime = run[r].openai_calls[j].mime

\* the provider answered without raising, and its text is None or ""
AnsweredEmpty(response) ==
  /\ response # None
  /\ ~Val(response).raised
  /\ Falsy(Val(response).text)

\* C11 as stated: an adapter whose provider answered None or "" returns no
\* text, and no outcome handed to publish_result has a service_used that is
\* not None together with result "".
C11_EmptyTextIsFailure ==
  \A r \in Threads :
     /\ AnsweredEmpty(run[r].vertex_response) => run[r].vertex_ret = None
     /\ AnsweredEmpty(run[r].openai_response) => run[r].openai_ret = None
     /\ \A i \in 1..Len(run[r].published) :
           ~ /\ Field(run[r].published[i], "service_used") # None
             /\ run[r].published[i].result = << >>

\* C12 as stated: in the life of the process the OpenAI client is built at
\* most once, however the runs that find the handle unset interleave.
C12_ConstructedAtMostOnce == constructions <= 1

\* C13 as stated: once _openai_client is not None no step assigns it again,
\* and no step contacts the secret store.
C13_HandleNeverReassigned ==
  [][ openai_client # None
        => /\ openai_client' = openai_client
           /\ \A r \in Threads : run'[r].secret_calls <= run[r].secret_calls ]_vars

\* the Vertex attempt of s is over: the adapter returned text or raised
PrimaryCompleted(s) == s.vertex_ret # None \/ s.vertex_error # None

\* the OpenAI attempt of s is over: the adapter returned text or raised
SecondaryCompleted(s) == s.openai_ret # None \/ s.openai_error # None

\* C14: within one run the fetch is over (bytes in hand, one requests.get, no
\* exception) before any adapter is called; the Vertex attempt is over, as a
\* failure, before the OpenAI adapter is called; each adapter is called at
\* most once; and an outcome of a run whose fetch succeeded is handed to
\* publish_result only when the last adapter called is over, no adapter
\* being in progress or still to be called.
C14_StepsStrictlyOrdered ==
  \A r \in Threads :
     LET s == run[r]
     IN /\ Len(s.vertex_calls) <= 1 /\ Len(s.openai_calls) <= 1
        /\ s.vertex_calls # << >>
              => /\ s.fetch_calls = 1
                 /\ s.media_bytes # None
                 /\ s.fetch_exc = None
        /\ s.openai_calls # << >>
              => /\ s.vertex_calls # << >>
                 /\ s.vertex_error # None
                 /\ s.vertex_ret = None
        /\ (s.published # << >> /\ s.fetch_exc = None)
              => /\ s.pc \in { "publish", "done" }
                 /\ s.vertex_calls # << >>
                 /\ PrimaryCompleted(s)
                 /\ s.openai_calls # << >> => SecondaryCompleted(s)
                 /\ s.vertex_ret = None => s.openai_calls # << >>
        /\ s.pc \in { "fetch", "primary", "secondary", "secret", "openai_api" }
              => s.published = << >>

C14_Witness ==
  \E r \in Threads :
     /\ run[r].pc = "done"
     /\ run[r].fetch_calls = 1
     /\ Len(run[r].vertex_calls) = 1
     /\ Len(run[r].openai_calls) = 1
     /\ run[r].openai_ret # None
     /\ Len(run[r].published) = 1

\* C15: a run whose envelope cannot be decoded (base64, UTF-8 or JSON) ends
\* in the outer handler, which only logs: it publishes nothing and calls
\* neither requests.get, nor an adapter, nor the secret store.
C15_UndecodableAbortsSilently ==
  \A r \in Threads :
     LET s == run[r]
     IN (s.pc # "idle" /\ ~s.data.decodable)
        => /\ s.published = << >>
           /\ s.fetch_calls = 0
           /\ s.vertex_calls = << >>
           /\ s.openai_calls = << >>
           /\ s.secret_calls = 0
           /\ s.pc \in { "start", "done" }
           /\ s.pc = "done" => (s.ended = "fatal" /\ s.state = "INIT")

C15_Witness ==
  \E r \in Threads :
     /\ run[r].pc = "done"
     /\ ~run[r].data.decodable
     /\ run[r].ended = "fatal"

\* C16 as stated: a finished run that met a validation error, a fetch error,
\* a Vertex error or an OpenAI error has handed exactly one outcome to
\* publish_result and is in a terminal state of the orchestrator.
C16_EveryErrorPublished ==
  \A r \in Threads :
     LET s == run[r]
     IN (/\ s.pc = "done"
         /\ \/ FailsValidation(s)
            \/ s.fetch_exc # None
            \/ s.vertex_error # None
            \/ s.openai_error # None)
        => /\ Len(s.published) = 1
           /\ s.state \in Terminal

\* the five keys of the outbound format
OutcomeKeys == { "correlation_id", "result", "media_type", "service_used", "error" }

\* C17 as stated: every dict handed to publish_result holds the five keys
\* correlation_id, result, media_type, service_used and error.
C17_AllFiveFields ==
  \A r \in Threads :
     \A i \in 1..Len(run[r].published) :
        DOMAIN run[r].published[i] = OutcomeKeys

\* the extension of the file the URL names: what follows the last '.' of the
\* URL once everything from the first '?' on is removed, lower-cased
PathExtension(media_url) == Lower(SplitLast(SplitFirst(media_url, "?"), "."))

\* the extensions of the table
TableExtensions == { S_ogg, S_oga, S_mp3, S_mpeg, S_wav, S_webm, S_m4a, S_mp4 }

\* the MIME the table gives for an extension of the table
TableEntry(extension) ==
  CASE extension \in { S_ogg, S_oga }  -> "audio/ogg"
    [] extension \in { S_mp3, S_mpeg } -> "audio/mpeg"
    [] extension = S_wav               -> "audio/wav"
    [] extension = S_webm              -> "audio/webm"
    [] extension \in { S_m4a, S_mp4 }  -> "audio/mp4"

\* s is past Decode with a payload of the audio category
IsAudioRun(s) == s.processing_type = Some("audio")

\* s is past Decode with a payload of the image category
IsImageRun(s) == s.processing_type = Some("image")

\* C18 as stated: in an audio run whose URL has, before its query string, an
\* extension of the table, each adapter called computes the table's MIME for
\* that extension, whatever the media_type and the query string.
C18_ExtensionDecidesAudioMime ==
  \A r \in Threads :
     LET s == run[r]
     IN (IsAudioRun(s) /\ PathExtension(Val(s.media_url)) \in TableExtensions)
        => /\ \A i \in 1..Len(s.vertex_calls) :
                 s.vertex_calls[i].mime = TableEntry(PathExtension(Val(s.media_url)))
           /\ \A i \in 1..Len(s.openai_calls) :
                 s.openai_calls[i].mime = TableEntry(PathExtension(Val(s.media_url)))

\* the first of the rules ogg, mp3 or mpeg, wav, webm whose substring occurs
\* in the lower-cased media_type, audio/mpeg when none does
AudioMimeBySubstring(media_type) ==
  LET m == Lower(media_type)
      rules == << << {S_ogg}, "audio/ogg" >>,
                  << {S_mp3, S_mpeg}, "audio/mpeg" >>,
                  << {S_wav}, "audio/wav" >>,
                  << {S_webm}, "audio/webm" >> >>
      hits == { k \in 1..Len(rules) : \E sub \in rules[k][1] : Contains(sub, m) }
  IN IF hits = { } THEN "audio/mpeg"
     ELSE rules[CHOOSE k \in hits : \A j \in hits : k <= j][2]

\* C19 as stated: in an audio run whose URL has, before its query string, no
\* extension of the table, the Vertex adapter computes the MIME of the first
\* matching substring rule of the media_type, audio/mpeg when none matches.
C19_SubstringFallbackAudioMime ==
  \A r \in Threads :
     LET s == run[r]
     IN (IsAudioRun(s) /\ PathExtension(Val(s.media_url)) \notin TableExtensions)
        => \A i \in 1..Len(s.vertex_calls) :
              s.vertex_calls[i].mime = AudioMimeBySubstring(Val(s.media_type))

\* the first of the rules png, jpeg or jpg, webp whose substring occurs in
\* the lower-cased media_type, image/jpeg when none does
ImageMimeBySubstring(media_type) ==
  LET m == Lower(media_type)
      rules == << << {S_png}, "image/png" >>,
                  << {S_jpeg, S_jpg}, "image/jpeg" >>,
                  << {S_webp}, "image/webp" >> >>
      hits == { k \in 1..Len(rules) : \E sub \in rules[k][1] : Contains(sub, m) }
  IN IF hits = { } THEN "image/jpeg"
     ELSE rules[CHOOSE k \in hits : \A j \in hits : k <= j][2]

\* C20: in an image run the Vertex adapter and the OpenAI adapter both
\* compute the MIME of the first matching substring rule of the media_type
\* (png, jpeg or jpg, webp), image/jpeg when none matches: a function of the
\* media_type alone, the same for every URL and for both adapters.
C20_ImageMimeFromMediaTypeOnly ==
  \A r \in Threads :
     LET s == run[r]
     IN IsImageRun(s)
        => /\ \A i \in 1..Len(s.vertex_calls) :
                 s.vertex_calls[i].mime = ImageMimeBySubstring(Val(s.media_type))
           /\ \A i \in 1..Len(s.openai_calls) :
                 s.openai_calls[i].mime = ImageMimeBySubstring(Val(s.media_type))

\* both adapters were called for an image whose media_type matches two rules
\* and whose URL ends in an audio extension
C20_Witness ==
  \E r \in Threads :
     /\ IsImageRun(run[r])
     /\ Len(run[r].vertex_calls) = 1 /\ Len(run[r].openai_calls) = 1
     /\ Contains(S_webp, Lower(Val(run[r].media_type)))
     /\ Contains(S_png, Lower(Val(run[r].media_type)))
     /\ PathExtension(Val(run[r].media_url)) = S_ogg
     /\ run[r].vertex_calls[1].mime = "image/png"
     /\ run[r].openai_calls[1].mime = "image/png"

\* the payload holds a media_type string in which "audio" occurs, in any
\* mix of upper and lower case
NamesAudio(payload) ==
  /\ "media_type" \in DOMAIN payload
  /\ payload["media_type"] # None
  /\ LET m == Val(payload["media_type"])
     IN \E i \in 1..Len(m) :
           /\ i + 4 <= Len(m)
           /\ \A k \in 0..4 : LowerChar(m[i + k]) = S_audio[k + 1]

\* the category the claim gives a payload, and the capability it selects
CategoryOf(payload) == IF NamesAudio(payload) THEN "audio" ELSE "image"

CapabilityOf(category) == IF category = "audio" THEN "transcribe" ELSE "describe"

\* C21: a run past validation has the category audio exactly when its
\* media_type holds "audio" in any case, image otherwise (absent or empty
\* media_type included, whatever the URL); every Vertex call and every OpenAI
\* call of the run uses the capability of that category, and every outcome
\* published by the run has that category as media_type.
C21_CategoryDerivedOnce ==
  \A r \in Threads :
     LET s == run[r]
         category == CategoryOf(s.data.payload)
     IN s.processing_type # None
        => /\ Val(s.processing_type) = category
           /\ \A i \in 1..Len(s.vertex_calls) :
                 s.vertex_calls[i].capability = CapabilityOf(category)
           /\ \A i \in 1..Len(s.openai_calls) :
                 s.openai_calls[i].capability = CapabilityOf(category)
           /\ \A i \in 1..Len(s.published) :
                 s.published[i].media_type = category

\* a finished run without media_type key and with an audio extension used
\* describe in both attempts and published "image"
C21_Witness ==
  \E r \in Threads :
     LET s == run[r]
     IN /\ s.pc = "done"
        /\ "media_type" \notin DOMAIN s.data.payload
        /\ PathExtension(Val(s.media_url)) = S_ogg
        /\ Len(s.vertex_calls) = 1 /\ s.vertex_calls[1].capability = "describe"
        /\ Len(s.openai_calls) = 1 /\ s.openai_calls[1].capability = "describe"
        /\ Len(s.published) = 1 /\ s.published[1].media_type = "image"

\* the place of a state in the orchestrator's state machine
StateRank(state) ==
  CASE state = "INIT"             -> 0
    [] state = "FETCHING"         -> 1
    [] state = "FETCH_FAILED"     -> 2
    [] state = "INFER_PRIMARY"    -> 2
    [] state = "PRIMARY_OK"       -> 3
    [] state = "INFER_SECONDARY"  -> 3
    [] state = "SECONDARY_OK"     -> 4
    [] state = "SECONDARY_FAILED" -> 4

\* C22 as stated: every run that enters INIT (its envelope decodes)
\* eventually stops in a terminal state of the orchestrator; within a run the
\* state only moves forward, so no state is visited twice, and a terminal
\* state is never left.
C22_ReachesOneTerminalState ==
  /\ \A r \in Threads :
        []( (run[r].pc = "start" /\ run[r].data.decodable)
            => <>(run[r].pc = "done" /\ run[r].state \in Terminal) )
  /\ [][ \A r \in Threads :
           run'[r].pc # "start"
             => /\ run'[r].state # run[r].state
                   => StateRank(run'[r].state) > StateRank(run[r].state)
                /\ run[r].state \in Terminal
                   => run'[r].state = run[r].state ]_vars

\* the run asked the secret store for the key and built no client: the
\* secret store, or OpenAI(api_key=...), raised
SecretRetrievalFailed(s) == s.secret_calls = 1 /\ s.built = 0

\* C23: a run whose Vertex attempt failed and whose get_openai_client raised
\* hands exactly one outcome to publish_result: result "", no service_used,
\* and an error that holds the Vertex reason and, after it, the reason the
\* secret store gave; the run is in SECONDARY_FAILED like after any other
\* OpenAI failure.
C23_SecretFailureIsSecondaryFailure ==
  \A r \in Threads :
     LET s == run[r]
     IN SecretRetrievalFailed(s)
        => /\ s.vertex_error # None
           /\ s.openai_error # None /\ Val(s.openai_error) \in SecretRaises
           /\ s.state = "SECONDARY_FAILED"
           /\ Len(s.published) = 1
           /\ s.published[1].result = << >>
           /\ Field(s.published[1], "service_used") = None
           /\ Field(s.published[1], "error") # None
           /\ InOrder(Val(s.vertex_error), Val(s.openai_error),
                      Val(Field(s.published[1], "error")))

C23_Witness ==
  \E r \in Threads :
     /\ run[r].pc = "done" /\ run[r].acked
     /\ SecretRetrievalFailed(run[r])
     /\ Len(run[r].published) = 1
     /\ Val(run[r].vertex_error) \in VertexRaises

\* the transport rejected the publish of s
PublishRejected(s) == s.pc = "done" /\ s.published # << >> /\ ~s.acked

\* C24: a run calls requests.get, the Vertex adapter, the OpenAI adapter and
\* publish_result at most once each, and asks the secret store at most once;
\* a run whose publish the transport rejected has ended in the outer handler
\* with that one publish attempt.
C24_NothingRetried ==
  \A r \in Threads :
     LET s == run[r]
     IN /\ s.fetch_calls <= 1
        /\ Len(s.vertex_calls) <= 1
        /\ Len(s.openai_calls) <= 1
        /\ s.secret_calls <= 1
        /\ Len(s.published) <= 1
        /\ PublishRejected(s) => (s.ended = "fatal" /\ Len(s.published) = 1)

\* a run that tried both adapters had its publish rejected
C24_Witness ==
  \E r \in Threads :
     /\ PublishRejected(run[r])
     /\ run[r].ended = "fatal"
     /\ run[r].fetch_calls = 1
     /\ Len(run[r].vertex_calls) = 1
     /\ Len(run[r].openai_calls) = 1

\* C25: the OpenAI adapter is called in a run only when the download
\* succeeded and the Vertex adapter failed in that run; it is not called in
\* a run whose Vertex adapter returned text; and a run whose Vertex adapter
\* failed does not publish or end without having called it.
C25_SecondaryIffPrimaryFailed ==
  \A r \in Threads :
     LET s == run[r]
     IN /\ s.openai_calls # << >>
              => /\ s.fetch_calls = 1 /\ s.fetch_exc = None /\ s.media_bytes # None
                 /\ s.vertex_error # None
        /\ s.vertex_ret # None => s.openai_calls = << >>
        /\ (s.vertex_error # None /\ (s.published # << >> \/ s.pc = "done"))
              => s.openai_calls # << >>

\* one finished run called the OpenAI adapter after the provider of the
\* Vertex adapter answered empty text, another finished run got text from
\* the Vertex adapter and did not call it
C25_Witness ==
  \E r, q \in Threads :
     /\ run[r].pc = "done"
     /\ AnsweredEmpty(run[r].vertex_response)
     /\ run[r].vertex_error # None
     /\ Len(run[r].openai_calls) = 1
     /\ run[q].pc = "done"
     /\ run[q].vertex_ret # None
     /\ run[q].openai_calls = << >>

\* the provider answered without raising, and its text is not empty and
\* holds only whitespace
AnsweredWhitespace(response) ==
  /\ response # None
  /\ ~Val(response).raised
  /\ Val(response).text # None
  /\ LET text == Val(Val(response).text)
     IN /\ Len(text) > 0
        /\ \A i \in 1..Len(text) : text[i] \in Whitespace

\* C26: a run whose Vertex provider answered whitespace-only text counts the
\* Vertex attempt as a success: the adapter returns, the OpenAI adapter is
\* not called, and the one outcome published has service_used "vertex_ai" and
\* no error.
C26_WhitespaceIsPrimarySuccess ==
  \A r \in Threads :
     LET s == run[r]
     IN AnsweredWhitespace(s.vertex_response)
        => /\ s.vertex_ret # None
           /\ s.vertex_error = None
           /\ s.state = "PRIMARY_OK"
           /\ s.openai_calls = << >>
           /\ Len(s.published) = 1
           /\ Field(s.published[1], "service_used") = Some("vertex_ai")
           /\ Field(s.published[1], "error") = None

C26_Witness ==
  \E r \in Threads :
     /\ run[r].pc = "done" /\ run[r].acked
     /\ AnsweredWhitespace(run[r].vertex_response)
     /\ Len(run[r].published) = 1
     /\ run[r].published[1].result = << >>

\* s is a run without OpenAI attempt: its envelope does not decode, or fails
\* validation, or its download failed, or its Vertex adapter returned text
NoSecondaryAttempt(s) ==
  /\ s.pc # "idle"
  /\ \/ ~s.data.decodable
     \/ FailsValidation(s)
     \/ s.fetch_exc # None
     \/ s.vertex_ret # None

\* the OpenAI adapter of s has been entered and has not returned or raised
InSecondaryAttempt(s) ==
  /\ s.openai_calls # << >>
  /\ s.openai_ret = None
  /\ s.openai_error = None

\* C27: a run without OpenAI attempt never asks the secret store and builds
\* no client; and every step that changes _openai_client is a step of a run
\* inside its OpenAI adapter, which builds the client it stores.
C27_ClientConstructedLazily ==
  /\ [](\A r \in Threads :
          NoSecondaryAttempt(run[r])
             => (run[r].secret_calls = 0 /\ run[r].built = 0))
  /\ [][ openai_client' # openai_client
           => \E r \in Threads :
                 /\ InSecondaryAttempt(run[r])
                 /\ run'[r].built = run[r].built + 1
                 /\ \A q \in Threads \ {r} : run'[q] = run[q] ]_vars

\* the handle is set by one run; another run has ended with text from the
\* Vertex adapter and without asking the secret store
C27_Witness ==
  \E r, q \in Threads :
     /\ openai_client # None
     /\ run[q].built = 1
     /\ run[r].pc = "done"
     /\ run[r].vertex_ret # None
     /\ run[r].secret_calls = 0

\* C28: a step in which get_openai_client raises leaves _openai_client as it
\* was, so the handle is only ever None or a client that was built; and a
\* run that enters its OpenAI adapter while the handle is None goes on to
\* ask the secret store again, whatever failed before.
C28_FailedConstructionNotCached ==
  /\ [][ \A r \in Threads :
           (run[r].pc = "secret" /\ run'[r].pc # "secret"
              /\ run'[r].built = run[r].built)
             => openai_client' = openai_client ]_vars
  /\ [](openai_client # None => Val(openai_client) \in 1..constructions)
  /\ [][ \A r \in Threads :
           (run[r].pc = "secondary" /\ run'[r].pc # "secondary"
              /\ openai_client = None)
             => run'[r].pc = "secret" ]_vars

\* one run has ended after get_openai_client raised, the handle is None,
\* and another run whose Vertex adapter failed is asking the secret store
C28_Witness ==
  \E r, q \in Threads :
     /\ run[r].pc = "done"
     /\ SecretRetrievalFailed(run[r])
     /\ openai_client = None
     /\ run[q].pc = "secret"
     /\ run[q].vertex_error # None

\* the text the adapters of s returned to process_media, "" when none did
ReturnedText(s) ==
  IF s.vertex_ret # None THEN Val(s.vertex_ret)
  ELSE IF s.openai_ret # None THEN Val(s.openai_ret)
  ELSE << >>

\* C29: whatever the other thread does, every outcome a run hands to
\* publish_result has the correlation_id of that run's own envelope, the
\* category of its own media_type and the text its own adapters returned,
\* and every adapter call of the run gets the content of its own media_url.
C29_OutcomeOfOwnRun ==
  \A r \in Threads :
     LET s == run[r]
         payload == s.data.payload
     IN /\ \A i \in 1..Len(s.published) :
              /\ s.published[i].correlation_id = DictGet(payload, "correlation_id", None)
              /\ s.published[i].media_type = CategoryOf(payload)
              /\ s.published[i].result = ReturnedText(s)
        /\ \A i \in 1..Len(s.vertex_calls) :
              s.vertex_calls[i].bytes = Content(Val(payload["media_url"]))
        /\ \A i \in 1..Len(s.openai_calls) :
              s.openai_calls[i].bytes = Content(Val(payload["media_url"]))

\* two runs in flight at once, with different correlation_id, media_url and
\* category, have both handed their outcome to publish_result
C29_Witness ==
  \E r, q \in Threads :
     /\ run[r].pc = "publish" /\ run[q].pc = "publish"
     /\ run[r].correlation_id # run[q].correlation_id
     /\ run[r].media_url # run[q].media_url
     /\ run[r].processing_type # run[q].processing_type
     /\ run[r].vertex_ret # None /\ Val(run[r].vertex_ret) # << >>
     /\ run[q].openai_ret # None
     /\ run[r].published[1].result # run[q].published[1].result

\* C30 as stated: a finished run whose envelope decodes to a payload with
\* non-empty media_url and correlation_id has handed exactly one outcome to
\* publish_result, whether media_type is absent, "", any string or null.
C30_AnyMediaTypePublishes ==
  \A r \in Threads :
     LET s == run[r]
     IN (/\ s.pc = "done"
         /\ s.data.decodable
         /\ ~MissingOrEmpty(s.data.payload, "media_url")
         /\ ~MissingOrEmpty(s.data.payload, "correlation_id"))
        => Len(s.published) = 1

====
